---- MODULE Spec2Model ----
(***************************************************************************)
(* Extended-query protocol engine of tokio-postgres (grafbase fork):       *)
(* prepare.rs (Preparer), statement.rs (Statement handle and its           *)
(* Close-on-drop), query.rs (query / query_txt / query_portal / execute    *)
(* and RowStream).                                                         *)
(*                                                                         *)
(* Strings that the code inspects (statement names, command tags) are      *)
(* sequences of byte values; message bodies are records.                   *)
(***************************************************************************)
EXTENDS Integers, Sequences, FiniteSets, TLC

\* ------------------------------------------------------------------ bounds
NumConns == 2
NumTasks == 2
MaxRefs == 2
MaxOwners == 2
MaxRows == 2
MaxParams == 2
MaxInbox == 2
MaxTagLen == 3

Conns == 1..NumConns
Tasks == 1..NumTasks

\* ------------------------------------------------------- inbound messages
\* One record shape for every backend message; the fields a message type
\* does not carry stay at their empty value.
Msg(type, oids, fields, tag, status, row, ok) ==
    [type |-> type, oids |-> oids, fields |-> fields, tag |-> tag,
     status |-> status, row |-> row, ok |-> ok]

NoMsg == Msg("none", <<>>, <<>>, <<>>, 0, 0, TRUE)
ParseCompleteMsg == Msg("ParseComplete", <<>>, <<>>, <<>>, 0, 0, TRUE)
BindCompleteMsg == Msg("BindComplete", <<>>, <<>>, <<>>, 0, 0, TRUE)
NoDataMsg == Msg("NoData", <<>>, <<>>, <<>>, 0, 0, TRUE)
EmptyQueryResponseMsg == Msg("EmptyQueryResponse", <<>>, <<>>, <<>>, 0, 0, TRUE)
PortalSuspendedMsg == Msg("PortalSuspended", <<>>, <<>>, <<>>, 0, 0, TRUE)
\* A message no arm of this component names (CloseComplete, NoticeResponse, ...).
CloseCompleteMsg == Msg("CloseComplete", <<>>, <<>>, <<>>, 0, 0, TRUE)
ParameterDescriptionMsg(oids, ok) ==
    Msg("ParameterDescription", oids, <<>>, <<>>, 0, 0, ok)
RowDescriptionMsg(fields, ok) ==
    Msg("RowDescription", <<>>, fields, <<>>, 0, 0, ok)
DataRowMsg(row) == Msg("DataRow", <<>>, <<>>, <<>>, 0, row, TRUE)
CommandCompleteMsg(tag, ok) == Msg("CommandComplete", <<>>, <<>>, tag, 0, 0, ok)
ReadyForQueryMsg(status) == Msg("ReadyForQuery", <<>>, <<>>, <<>>, status, 0, TRUE)

\* ------------------------------------------------------ outbound messages
Front(type, kind, name, portal, max_rows) ==
    [type |-> type, kind |-> kind, name |-> name, portal |-> portal,
     max_rows |-> max_rows]

StatementKind == 83
SyncMsg == Front("Sync", 0, <<>>, <<>>, 0)
ParseMsg(name) == Front("Parse", 0, name, <<>>, 0)
DescribeMsg(kind, name) == Front("Describe", kind, name, <<>>, 0)
CloseMsg(kind, name) == Front("Close", kind, name, <<>>, 0)
BindMsg(portal, name) == Front("Bind", 0, name, portal, 0)
ExecuteMsg(portal, max_rows) == Front("Execute", 0, <<>>, portal, max_rows)

\* ----------------------------------------------------------------- errors
Err(kind, msg, a, b) == [kind |-> kind, msg |-> msg, a |-> a, b |-> b]
NoErr == Err("none", NoMsg, 0, 0)
UnexpectedMessage(m) == Err("unexpected_message", m, 0, 0)
ParseError == Err("parse", NoMsg, 0, 0)
EncodeError == Err("encode", NoMsg, 0, 0)
ParametersError(real, expected) == Err("parameters", NoMsg, real, expected)

\* ------------------------------------------------------------ pure helpers
\* format!("{}", id): the decimal digits of id, as bytes.
RECURSIVE Decimal(_)
Decimal(n) ==
    IF n < 10 THEN <<48 + n>> ELSE Decimal(n \div 10) \o <<48 + (n % 10)>>

\* format!("s{}", id)
StatementName(id) == <<115>> \o Decimal(id)

\* NEXT_ID.fetch_add(1, SeqCst): the counter's value after the call (the call
\* returns the value before it).
FetchAddLoadOnly(id) == id
FetchAdd(id) == id + 1

\* Types are represented by their OID; Type::from_oid knows these.
INT4 == 23
TEXT == 25
KnownOids == {INT4, TEXT}

\* get_type: the known type, or Type::TEXT for an OID from_oid does not know.
get_type_identity(oid) == oid
get_type(oid) == IF oid \in KnownOids THEN oid ELSE TEXT

\* Some(n).filter(|n| *n != 0)
NonZero(n) == IF n # 0 THEN <<n>> ELSE <<>>

Field(name, table_oid, column_id, type_oid) ==
    [name |-> name, table_oid |-> table_oid, column_id |-> column_id,
     type_oid |-> type_oid]

ColumnOf(field) ==
    [name |-> field.name, table_oid |-> NonZero(field.table_oid),
     column_id |-> NonZero(field.column_id), type |-> get_type(field.type_oid)]

\* The `while let Some(oid) = it.next()` loop over a parameter description.
DecodeParameters(oids) == [i \in 1..Len(oids) |-> get_type(oids[i])]

\* The `while let Some(field) = it.next()` loop over a row description.
DecodeColumns(fields) == [i \in 1..Len(fields) |-> ColumnOf(fields[i])]

\* ------------------------------------------------------------------ state
VARIABLES
    NEXT_ID,    \* prepare.rs: static NEXT_ID
    issued,     \* the names `prepare` generated, in the order of the fetch_add
    clients,    \* per connection: strong / weak count of its Arc<InnerClient>
    queue,      \* per connection: the requests submitted through client.send
    stmts,      \* the StatementInner objects allocated so far
    prep,       \* per task: the position and locals of its `prepare` call
    call,       \* the query / query_txt / query_portal / execute call
    responses,  \* the call's Response Reader: the request's messages, how many
                \* have arrived and how many were read
    stream,     \* the fields of the RowStream the call returned
    yielded,    \* what poll_next handed to the consumer, in order
    lastPoll,   \* how the latest poll_next returned
    peer        \* a typed call another task makes on the same Statement

streamVars == <<call, responses, stream, yielded, lastPoll, peer>>
vars == <<NEXT_ID, issued, clients, queue, stmts, prep,
          call, responses, stream, yielded, lastPoll, peer>>

\* ------------------------------------------------------- Statement handle
NamedInner(client, name, params, columns) ==
    [kind |-> "Named", client |-> client, name |-> name, params |-> params,
     columns |-> columns, refs |-> 1, dropped |-> FALSE]

UnnamedInner(params, columns) ==
    [kind |-> "Unnamed", client |-> 0, name |-> <<>>, params |-> params,
     columns |-> columns, refs |-> 1, dropped |-> FALSE]

\* Statement::name
NameOf(st) == IF st.kind = "Unnamed" THEN <<>> ELSE st.name

\* Arc::downgrade(inner): a weak reference; the strong count is untouched.
ArcDowngradeAsClone(cl) == [cl EXCEPT !.strong = @ + 1]
ArcDowngrade(cl) == [cl EXCEPT !.weak = @ + 1]

\* Weak::upgrade succeeds while a strong reference exists.
Upgradable(cl) == cl.strong > 0

\* The request built in Drop for StatementInner.
CloseRequest(name) == <<CloseMsg(StatementKind, name), SyncMsg>>

\* client.send: the request joins the connection's outbound queue.
Send(q, c, request) == [q EXCEPT ![c] = Append(@, request)]

\* Drop for StatementInner: the queues after the destructor ran.
DropInnerNever(st, cls, q) == q
DropInner(st, cls, q) ==
    IF st.kind = "Named"
    THEN IF Upgradable(cls[st.client])
         THEN Send(q, st.client, CloseRequest(st.name))
         ELSE q
    ELSE q

\* ------------------------------------------------------------- prepare.rs
\* What a Response Reader may deliver to `prepare`.
PrepareInputs ==
    { ParseCompleteMsg, NoDataMsg, CloseCompleteMsg,
      ParameterDescriptionMsg(<<INT4>>, TRUE),
      RowDescriptionMsg(<<Field("id", 0, 0, INT4)>>, TRUE) }

\* The same, with descriptions of other lengths, with bodies that cannot be
\* decoded, and with the other messages of the protocol.
PrepareInputsWide ==
    PrepareInputs \cup
    { BindCompleteMsg, EmptyQueryResponseMsg,
      ParameterDescriptionMsg(<<>>, TRUE),
      ParameterDescriptionMsg(<<INT4, 99999>>, TRUE),
      ParameterDescriptionMsg(<<INT4>>, FALSE),
      RowDescriptionMsg(<<Field("id", 16384, 1, INT4), Field("n", 0, 0, 99999)>>, TRUE),
      RowDescriptionMsg(<<Field("id", 0, 0, INT4)>>, FALSE),
      DataRowMsg(1), CommandCompleteMsg(<<66, 69, 71, 73, 78>>, TRUE),
      ReadyForQueryMsg(73) }

NoResult == [kind |-> "none", stmt |-> 0, err |-> NoErr]
OkStatement(s) == [kind |-> "ok", stmt |-> s, err |-> NoErr]
Failed(e) == [kind |-> "err", stmt |-> 0, err |-> e]

IdlePrepare ==
    [pc |-> "idle", client |-> 0, unnamed |-> FALSE, name |-> <<>>,
     read |-> <<>>, parameter_description |-> NoMsg, result |-> NoResult]

\* prepare.rs `encode`: Parse, Describe('S'), Sync in one buffer.
PrepareRequest(name) ==
    <<ParseMsg(name), DescribeMsg(StatementKind, name), SyncMsg>>

InFlight(c) ==
    \E t \in Tasks : prep[t].client = c /\ prep[t].pc \notin {"idle", "done"}

\* prepare, up to the first await: name, encode, send.
PrepareCall(t, c, unnamed, encodable) ==
    /\ prep[t].pc = "idle"
    /\ clients[c].strong > 0
    /\ LET name == IF unnamed THEN <<>> ELSE StatementName(NEXT_ID)
       IN /\ NEXT_ID' = IF unnamed THEN NEXT_ID ELSE FetchAdd(NEXT_ID)
          /\ issued' = IF unnamed THEN issued ELSE Append(issued, name)
          /\ IF encodable
             THEN /\ queue' = Send(queue, c, PrepareRequest(name))
                  /\ prep' = [prep EXCEPT ![t] =
                        [IdlePrepare EXCEPT !.pc = "ParseComplete",
                            !.client = c, !.unnamed = unnamed, !.name = name]]
             ELSE /\ queue' = queue
                  /\ prep' = [prep EXCEPT ![t] =
                        [IdlePrepare EXCEPT !.pc = "done",
                            !.client = c, !.unnamed = unnamed, !.name = name,
                            !.result = Failed(EncodeError)]]
    /\ UNCHANGED <<clients, stmts>>
    /\ UNCHANGED streamVars

PrepareFailLenient(t, m) == [prep EXCEPT ![t].read = Append(@, m)]
PrepareFail(t, m) ==
    [prep EXCEPT ![t].pc = "done", ![t].read = Append(@, m),
                 ![t].result = Failed(UnexpectedMessage(m))]

\* match responses.next().await? { ParseComplete => {} m => Err }
PrepareParseComplete(t, m) ==
    /\ prep[t].pc = "ParseComplete"
    /\ prep' = IF m.type = "ParseComplete"
               THEN [prep EXCEPT ![t].pc = "ParameterDescription",
                                 ![t].read = Append(@, m)]
               ELSE PrepareFail(t, m)
    /\ UNCHANGED <<NEXT_ID, issued, clients, queue, stmts>>
    /\ UNCHANGED streamVars

\* match responses.next().await? { ParameterDescription(body) => body m => Err }
PrepareParameterDescription(t, m) ==
    /\ prep[t].pc = "ParameterDescription"
    /\ prep' = IF m.type = "ParameterDescription"
               THEN [prep EXCEPT ![t].pc = "RowDescription",
                                 ![t].read = Append(@, m),
                                 ![t].parameter_description = m]
               ELSE PrepareFail(t, m)
    /\ UNCHANGED <<NEXT_ID, issued, clients, queue, stmts>>
    /\ UNCHANGED streamVars

\* The third match and the rest of `prepare`: decode both descriptions and
\* build the Statement.
PrepareRowDescription(t, m) ==
    /\ prep[t].pc = "RowDescription"
    /\ IF m.type \notin {"RowDescription", "NoData"}
       THEN /\ prep' = PrepareFail(t, m)
            /\ UNCHANGED <<clients, stmts>>
       ELSE IF ~prep[t].parameter_description.ok \/ ~m.ok
       THEN /\ prep' = [prep EXCEPT ![t].pc = "done", ![t].read = Append(@, m),
                                    ![t].result = Failed(ParseError)]
            /\ UNCHANGED <<clients, stmts>>
       ELSE LET parameters == DecodeParameters(prep[t].parameter_description.oids)
                columns == DecodeColumns(m.fields)
                c == prep[t].client
            IN /\ stmts' = Append(stmts,
                     IF prep[t].unnamed
                     THEN UnnamedInner(parameters, columns)
                     ELSE NamedInner(c, prep[t].name, parameters, columns))
               /\ clients' = IF prep[t].unnamed THEN clients
                             ELSE [clients EXCEPT ![c] = ArcDowngrade(@)]
               /\ prep' = [prep EXCEPT ![t].pc = "done", ![t].read = Append(@, m),
                                       ![t].result = OkStatement(Len(stmts) + 1)]
    /\ UNCHANGED <<NEXT_ID, issued, queue>>
    /\ UNCHANGED streamVars

\* ----------------------------------------------------- handles and owners
\* Statement::clone (derive(Clone) on the Arc newtype).
CloneStatement(s) ==
    /\ stmts[s].refs > 0
    /\ stmts[s].refs < MaxRefs
    /\ stmts' = [stmts EXCEPT ![s].refs = @ + 1]
    /\ UNCHANGED <<NEXT_ID, issued, clients, queue, prep>>
    /\ UNCHANGED streamVars

\* The state of the heap and the queues after one handle of s is dropped.
ReleaseStmts(ss, s) ==
    [ss EXCEPT ![s].refs = @ - 1, ![s].dropped = (ss[s].refs = 1)]
ReleaseQueue(ss, cls, q, s) ==
    IF ss[s].refs = 1 THEN DropInner(ss[s], cls, q) ELSE q
ReleaseClients(ss, cls, s) ==
    IF ss[s].refs = 1 /\ ss[s].kind = "Named"
    THEN [cls EXCEPT ![ss[s].client].weak = @ - 1]
    ELSE cls

\* A handle of s goes out of scope.
DropStatement(s) ==
    /\ stmts[s].refs > 0
    /\ stmts' = ReleaseStmts(stmts, s)
    /\ queue' = ReleaseQueue(stmts, clients, queue, s)
    /\ clients' = ReleaseClients(stmts, clients, s)
    /\ UNCHANGED <<NEXT_ID, issued, prep>>
    /\ UNCHANGED streamVars

\* An owner of the connection clones its Arc<InnerClient>.
CloneClient(c) ==
    /\ clients[c].strong > 0
    /\ clients[c].strong < MaxOwners
    /\ clients' = [clients EXCEPT ![c].strong = @ + 1]
    /\ UNCHANGED <<NEXT_ID, issued, queue, stmts, prep>>
    /\ UNCHANGED streamVars

\* An owner drops its Arc<InnerClient>; a call in flight borrows one.
DropClient(c) ==
    /\ clients[c].strong > (IF InFlight(c) THEN 1 ELSE 0)
    /\ clients' = [clients EXCEPT ![c].strong = @ - 1]
    /\ UNCHANGED <<NEXT_ID, issued, queue, stmts, prep>>
    /\ UNCHANGED streamVars

\* --------------------------------------------------------------- query.rs
\* &str::rsplit(' ').next().unwrap(): the text after the last space.
RECURSIVE AfterFirstSpace(_)
AfterFirstSpace(tag) ==
    IF tag = <<>> THEN <<>>
    ELSE IF tag[1] = 32 THEN Tail(tag) ELSE AfterFirstSpace(Tail(tag))
LastWordSplitOnce(tag) ==
    IF \E i \in 1..Len(tag) : tag[i] = 32 THEN AfterFirstSpace(tag) ELSE tag
RECURSIVE LastWord(_)
LastWord(tag) ==
    IF tag = <<>> \/ tag[Len(tag)] = 32 THEN <<>>
    ELSE LastWord(SubSeq(tag, 1, Len(tag) - 1)) \o <<tag[Len(tag)]>>

IsDigits(w) == \A i \in 1..Len(w) : w[i] \in 48..57

RECURSIVE DigitsValue(_)
DigitsValue(w) ==
    IF w = <<>> THEN 0
    ELSE 10 * DigitsValue(SubSeq(w, 1, Len(w) - 1)) + (w[Len(w)] - 48)

RECURSIVE StripZeros(_)
StripZeros(w) == IF w # <<>> /\ w[1] = 48 THEN StripZeros(Tail(w)) ELSE w

\* u64::MAX, in decimal digits.
U64MaxDigits ==
    <<49, 56, 52, 52, 54, 55, 52, 52, 48, 55, 51, 55, 48, 57, 53, 53, 49, 54, 49, 53>>

RECURSIVE DigitsGreater(_, _)
DigitsGreater(a, b) ==
    IF a = <<>> THEN FALSE
    ELSE IF a[1] # b[1] THEN a[1] > b[1]
    ELSE DigitsGreater(Tail(a), Tail(b))

OverflowsU64(w) ==
    LET d == StripZeros(w)
    IN \/ Len(d) > Len(U64MaxDigits)
       \/ Len(d) = Len(U64MaxDigits) /\ DigitsGreater(d, U64MaxDigits)

\* str::parse::<u64>(): <<n>> on success, <<>> on failure. One leading '+'
\* is accepted; an empty digit string, a non-digit or an overflow fails.
ParseU64(w) ==
    LET d == IF w # <<>> /\ w[1] = 43 THEN Tail(w) ELSE w
    IN IF d = <<>> \/ ~IsDigits(d) \/ OverflowsU64(d) THEN <<>>
       ELSE <<DigitsValue(d)>>

\* extract_row_affected, for a tag that body.tag() could read.
extract_row_affected(tag) ==
    LET r == ParseU64(LastWord(tag)) IN IF r = <<>> THEN 0 ELSE r[1]

ToSqlError(idx) == Err("to_sql", NoMsg, idx, 0)

\* The index (from 1) of the first parameter whose conversion fails, or 0.
FirstBad(params) ==
    IF \E i \in 1..Len(params) : params[i] = "bad"
    THEN CHOOSE i \in 1..Len(params) :
            params[i] = "bad" /\ \A j \in 1..(i - 1) : params[j] # "bad"
    ELSE 0

\* encode_bind: NoErr when the Bind message was written. `params` gives for
\* each supplied value whether to_sql_checked succeeds; `serial` tells
\* whether frontend::bind hits a serialization failure, and whether before or
\* after it converts the values.
encode_bind_unchecked(st, params, serial) ==
    IF serial = "before" THEN EncodeError
    ELSE IF FirstBad(params) # 0 THEN ToSqlError(FirstBad(params) - 1)
    ELSE IF serial = "after" THEN EncodeError
    ELSE NoErr
encode_bind_last_index(st, params, serial) ==
    LET bad == { i \in 1..Len(params) : params[i] = "bad" }
    IN IF Len(st.params) # Len(params)
       THEN ParametersError(Len(params), Len(st.params))
       ELSE IF serial = "before" THEN EncodeError
       ELSE IF bad # {}
       THEN ToSqlError((CHOOSE i \in bad : \A j \in bad : j <= i) - 1)
       ELSE IF serial = "after" THEN EncodeError
       ELSE NoErr
encode_bind(st, params, serial) ==
    IF Len(st.params) # Len(params)
    THEN ParametersError(Len(params), Len(st.params))
    ELSE IF serial = "before" THEN EncodeError
    ELSE IF FirstBad(params) # 0 THEN ToSqlError(FirstBad(params) - 1)
    ELSE IF serial = "after" THEN EncodeError
    ELSE NoErr

\* query.rs `encode`: Bind(portal "", statement), Execute("", 0), Sync.
BindRequest(name) == <<BindMsg(<<>>, name), ExecuteMsg(<<>>, 0), SyncMsg>>

\* The buffer query_txt builds.
TxtRequestDescribeFirst ==
    <<ParseMsg(<<>>), DescribeMsg(StatementKind, <<>>), BindMsg(<<>>, <<>>),
      ExecuteMsg(<<>>, 0), SyncMsg>>
TxtRequest ==
    <<ParseMsg(<<>>), BindMsg(<<>>, <<>>), DescribeMsg(StatementKind, <<>>),
      ExecuteMsg(<<>>, 0), SyncMsg>>

\* The buffer query_portal builds.
PortalRequest(portal, max_rows) == <<ExecuteMsg(portal, max_rows), SyncMsg>>

\* The objects a destructor can touch.
Heap(ss, cls, q) == [stmts |-> ss, clients |-> cls, queue |-> q]

\* One handle of statement s is dropped (s = 0: there is none).
Release(H, s) ==
    IF s = 0 THEN H
    ELSE Heap(ReleaseStmts(H.stmts, s),
              ReleaseClients(H.stmts, H.clients, s),
              ReleaseQueue(H.stmts, H.clients, H.queue, s))

\* Statement::clone on a handle of s.
Retain(H, s) == [H EXCEPT !.stmts[s].refs = @ + 1]

\* make_statement: "ok" with the StatementInner it allocates, "err" when the
\* row description cannot be decoded, "panic" when the parameter description
\* cannot (its decode error is unwrapped). rd is <<>> or <<message>>.
make_statement_no_columns(pd, rd) ==
    [ret |-> IF pd.ok THEN "ok" ELSE "panic",
     inner |-> UnnamedInner(DecodeParameters(pd.oids), <<>>)]
make_statement(pd, rd) ==
    IF ~pd.ok THEN [ret |-> "panic", inner |-> UnnamedInner(<<>>, <<>>)]
    ELSE IF rd # <<>> /\ ~rd[1].ok
    THEN [ret |-> "err", inner |-> UnnamedInner(<<>>, <<>>)]
    ELSE [ret |-> "ok",
          inner |-> UnnamedInner(DecodeParameters(pd.oids),
                                 IF rd = <<>> THEN <<>>
                                 ELSE DecodeColumns(rd[1].fields))]

\* ---------------------------------------------------------------- RowStream
NoRow == [statement |-> 0, body |-> 0, format |-> "none"]
NoItem == [kind |-> "none", row |-> NoRow, err |-> NoErr]
RowItem(s, body, format) ==
    [kind |-> "row", row |-> [statement |-> s, body |-> body, format |-> format],
     err |-> NoErr]
ErrItem(e) == [kind |-> "err", row |-> NoRow, err |-> e]
EndItem == [kind |-> "end", row |-> NoRow, err |-> NoErr]

\* The RowStream literal of query / query_txt / query_portal. Options are
\* <<>> (None) or <<v>> (Some(v)); statement 0 is None.
NewStream(statement, format) ==
    [statement |-> statement, rows_affected |-> <<>>, command_tag |-> <<>>,
     status |-> <<>>, output_format |-> format, parameter_description |-> <<>>]
NoStream == NewStream(0, "none")

\* RowStream accessors.
rows_affected == stream.rows_affected
command_tag == stream.command_tag
ready_status == stream.status

ArmResult(st, H, ret, item) == [stream |-> st, heap |-> H, ret |-> ret, item |-> item]

\* The NoData and RowDescription arms: take the stashed parameter
\* description, make the Statement, replace the stream's one.
DescribeArm(st, H, rd) ==
    LET taken == [st EXCEPT !.parameter_description = <<>>] IN
    IF st.parameter_description = <<>>
    THEN ArmResult(st, H, "panic", NoItem)
    ELSE LET made == make_statement(st.parameter_description[1], rd) IN
         CASE made.ret = "panic" -> ArmResult(taken, H, "panic", NoItem)
           [] made.ret = "err" -> ArmResult(taken, H, "yield", ErrItem(ParseError))
           [] OTHER ->
                LET H1 == [H EXCEPT !.stmts = Append(@, made.inner)]
                IN ArmResult([taken EXCEPT !.statement = Len(H.stmts) + 1],
                             Release(H1, st.statement), "continue", NoItem)

\* The DataRow arm.
DataRowArm(st, H, m) ==
    IF st.statement = 0 THEN ArmResult(st, H, "panic", NoItem)
    ELSE IF ~m.ok THEN ArmResult(st, H, "yield", ErrItem(ParseError))
    ELSE ArmResult(st, Retain(H, st.statement), "yield",
                   RowItem(st.statement, m.row, st.output_format))

\* The CommandComplete arm.
CommandCompleteArm(st, H, m) ==
    IF ~m.ok THEN ArmResult(st, H, "yield", ErrItem(ParseError))
    ELSE ArmResult([st EXCEPT !.rows_affected = <<extract_row_affected(m.tag)>>,
                              !.command_tag = <<m.tag>>],
                   H, "continue", NoItem)

\* What the ReadyForQuery arm returns.
ReadyArmContinue(st, H, m) ==
    ArmResult([st EXCEPT !.status = <<m.status>>], H, "continue", NoItem)
ReadyArm(st, H, m) ==
    ArmResult([st EXCEPT !.status = <<m.status>>], H, "end", EndItem)

\* What the EmptyQueryResponse | PortalSuspended arm returns.
IgnoreArm(st, H, m) == ArmResult(st, H, "continue", NoItem)

\* One turn of poll_next's loop on message m: the match.
PollArm(st, H, m) ==
    CASE m.type = "DataRow" -> DataRowArm(st, H, m)
      [] m.type = "CommandComplete" -> CommandCompleteArm(st, H, m)
      [] m.type = "ParameterDescription" ->
            ArmResult([st EXCEPT !.parameter_description = <<m>>], H, "continue", NoItem)
      [] m.type = "NoData" -> DescribeArm(st, H, <<>>)
      [] m.type = "RowDescription" -> DescribeArm(st, H, <<m>>)
      [] m.type \in {"EmptyQueryResponse", "PortalSuspended"} -> IgnoreArm(st, H, m)
      [] m.type = "ReadyForQuery" -> ReadyArm(st, H, m)
      [] OTHER -> ArmResult(st, H, "yield", ErrItem(UnexpectedMessage(m)))

\* poll_next: the loop over the messages that have arrived, from position
\* pos; it returns at the first arm that returns, or pending when the reader
\* has nothing more.
RECURSIVE PollLoop(_, _, _, _, _)
PollLoop(st, H, script, pos, avail) ==
    IF pos = avail
    THEN [stream |-> st, heap |-> H, ret |-> "pending", item |-> NoItem, pos |-> pos]
    ELSE LET a == PollArm(st, H, script[pos + 1])
         IN IF a.ret = "continue"
            THEN PollLoop(a.stream, a.heap, script, pos + 1, avail)
            ELSE [stream |-> a.stream, heap |-> a.heap, ret |-> a.ret,
                  item |-> a.item, pos |-> pos + 1]

\* ---------------------------------------------------- the request's course
\* What the server answers to one request. The well-formed answers to the
\* three kinds of request, for 0..MaxRows rows, and every answer that differs
\* from one of them by one inserted or one missing message. The reader
\* delivers a request's messages up to its ReadyForQuery.
SelectTag(n) == <<83, 69, 76, 69, 67, 84, 32>> \o Decimal(n)
BeginTag == <<66, 69, 71, 73, 78>>
InsertTag == <<73, 78, 83, 69, 82, 84, 32, 48, 32, 53>>
IdleStatus == 73
InTransactionStatus == 84
Rows(n) == [i \in 1..n |-> DataRowMsg(i)]
IdDescription == RowDescriptionMsg(<<Field("id", 16384, 1, INT4)>>, TRUE)
Int4Parameters == ParameterDescriptionMsg(<<INT4>>, TRUE)
Completion(n) == <<CommandCompleteMsg(SelectTag(n), TRUE), ReadyForQueryMsg(IdleStatus)>>

WellFormed ==
    { <<BindCompleteMsg>> \o Rows(n) \o Completion(n) : n \in 0..MaxRows }
    \cup { <<BindCompleteMsg, EmptyQueryResponseMsg, ReadyForQueryMsg(IdleStatus)>> }
    \cup { <<ParseCompleteMsg, BindCompleteMsg, Int4Parameters, IdDescription>>
              \o Rows(n) \o Completion(n) : n \in 0..MaxRows }
    \cup { <<ParseCompleteMsg, BindCompleteMsg, Int4Parameters, NoDataMsg,
             CommandCompleteMsg(BeginTag, TRUE), ReadyForQueryMsg(IdleStatus)>> }
    \cup { Rows(n) \o Completion(n) : n \in 0..MaxRows }
    \cup { Rows(n) \o <<PortalSuspendedMsg, ReadyForQueryMsg(IdleStatus)>> :
              n \in 1..MaxRows }
    \cup { <<ReadyForQueryMsg(IdleStatus)>> }

Strays ==
    { ParseCompleteMsg, BindCompleteMsg, NoDataMsg, CloseCompleteMsg,
      EmptyQueryResponseMsg, PortalSuspendedMsg, Int4Parameters, IdDescription,
      ParameterDescriptionMsg(<<INT4>>, FALSE),
      RowDescriptionMsg(<<Field("id", 0, 0, INT4)>>, FALSE),
      DataRowMsg(MaxRows + 1), CommandCompleteMsg(InsertTag, TRUE),
      CommandCompleteMsg(BeginTag, FALSE), ReadyForQueryMsg(InTransactionStatus) }

InsertAt(sc, i, m) == SubSeq(sc, 1, i) \o <<m>> \o SubSeq(sc, i + 1, Len(sc))
RemoveAt(sc, i) == SubSeq(sc, 1, i - 1) \o SubSeq(sc, i + 1, Len(sc))

RECURSIVE UpToReady(_)
UpToReady(sc) ==
    IF sc = <<>> THEN <<>>
    ELSE IF sc[1].type = "ReadyForQuery" THEN <<sc[1]>>
    ELSE <<sc[1]>> \o UpToReady(Tail(sc))

Scripts ==
    { UpToReady(sc) : sc \in
        WellFormed
        \cup UNION { { InsertAt(w, i, m) : i \in 0..(Len(w) - 1), m \in Strays } :
                        w \in WellFormed }
        \cup UNION { { RemoveAt(w, i) : i \in 1..(Len(w) - 1) } : w \in WellFormed } }

ParamLists ==
    UNION { [1..n -> {"ok", "bad"}] : n \in 0..MaxParams }

NoReader == [open |-> FALSE, script |-> <<>>, pos |-> 0, avail |-> 0]
Reader(script) == [open |-> TRUE, script |-> script, pos |-> 0, avail |-> 0]

IdleCall ==
    [path |-> "none", pc |-> "idle", statement |-> 0, params |-> <<>>,
     serial |-> "ok", max_rows |-> 0, result |-> NoErr, rows |-> 0]

\* The typed call of another task: where it is and the handle it owns.
IdlePeer == [pc |-> "idle", statement |-> 0]

\* The connection and the prepared Statement every call below uses.
TheClient == 1
TheStatement == 1
PortalName == <<112, 48>>

SetHeap(H) ==
    /\ stmts' = H.stmts
    /\ clients' = H.clients
    /\ queue' = H.queue

\* start: client.send(buf), in the body of query / execute, whose parameter
\* `statement` (a handle of s) lives until the function returns.
SubmitAfterDrop(H, s, request) ==
    LET H1 == Release(H, s) IN [H1 EXCEPT !.queue = Send(@, TheClient, request)]
Submit(H, s, request) == [H EXCEPT !.queue = Send(@, TheClient, request)]

\* query / execute up to the first await of `start`: encode, then send. The
\* call owns the handle it was given and drops it when it returns.
CallTyped(path, params, serial, script) ==
    /\ call.pc = "idle"
    /\ stmts[TheStatement].refs > 0
    /\ clients[TheClient].strong > 0
    /\ LET e == encode_bind(stmts[TheStatement], params, serial)
           H == Heap(stmts, clients, queue)
       IN IF e # NoErr
          THEN /\ call' = [IdleCall EXCEPT !.path = path, !.pc = "failed",
                                           !.params = params, !.serial = serial,
                                           !.result = e]
               /\ SetHeap(Release(H, TheStatement))
               /\ UNCHANGED responses
          ELSE /\ call' = [IdleCall EXCEPT !.path = path, !.pc = "start",
                                           !.params = params,
                                           !.statement = TheStatement]
               /\ SetHeap(Submit(H, TheStatement,
                                  BindRequest(NameOf(stmts[TheStatement]))))
               /\ responses' = Reader(script)
    /\ UNCHANGED <<peer, NEXT_ID, issued, prep, stream, yielded, lastPoll>>

\* query_txt up to the first await of `start`.
CallQueryTxt(encodable, script) ==
    /\ call.pc = "idle"
    /\ clients[TheClient].strong > 0
    /\ IF encodable
       THEN /\ call' = [IdleCall EXCEPT !.path = "query_txt", !.pc = "start"]
            /\ queue' = Send(queue, TheClient, TxtRequest)
            /\ responses' = Reader(script)
       ELSE /\ call' = [IdleCall EXCEPT !.path = "query_txt", !.pc = "failed",
                                        !.result = EncodeError]
            /\ UNCHANGED <<queue, responses>>
    /\ UNCHANGED <<peer, NEXT_ID, issued, clients, stmts, prep, stream, yielded, lastPoll>>

\* query_portal: the whole call. The portal holds a handle of the Statement;
\* the stream gets a clone.
CallQueryPortal(max_rows, encodable, script) ==
    /\ call.pc = "idle"
    /\ stmts[TheStatement].refs > 0
    /\ clients[TheClient].strong > 0
    /\ IF encodable
       THEN /\ call' = [IdleCall EXCEPT !.path = "query_portal", !.pc = "stream",
                                        !.max_rows = max_rows]
            /\ queue' = Send(queue, TheClient, PortalRequest(PortalName, max_rows))
            /\ responses' = Reader(script)
            /\ stmts' = [stmts EXCEPT ![TheStatement].refs = @ + 1]
            /\ stream' = NewStream(TheStatement, "Binary")
       ELSE /\ call' = [IdleCall EXCEPT !.path = "query_portal", !.pc = "failed",
                                        !.result = EncodeError]
            /\ UNCHANGED <<queue, responses, stmts, stream>>
    /\ UNCHANGED <<peer, NEXT_ID, issued, clients, prep, yielded, lastPoll>>

\* The connection hands the reader the request's next message.
Arrive ==
    /\ responses.open
    /\ responses.avail < Len(responses.script)
    /\ responses.avail - responses.pos < MaxInbox
    /\ responses' = [responses EXCEPT !.avail = @ + 1]
    /\ UNCHANGED <<peer, NEXT_ID, issued, clients, queue, stmts, prep, call, stream,
                   yielded, lastPoll>>

\* What `start` does with the message it read: "again", "ok" or "err".
StartMatchNoDrain(m) ==
    IF m.type \in {"BindComplete", "ReadyForQuery"} THEN "ok" ELSE "err"
StartMatch(m) ==
    CASE m.type = "ParseComplete" -> "again"
      [] m.type \in {"BindComplete", "ReadyForQuery"} -> "ok"
      [] OTHER -> "err"

\* One turn of the loop of `start`, and what its caller does when it returns.
StartStep ==
    /\ call.pc = "start"
    /\ responses.pos < responses.avail
    /\ LET m == responses.script[responses.pos + 1]
           H == Heap(stmts, clients, queue)
       IN /\ responses' = [responses EXCEPT !.pos = @ + 1]
          /\ CASE StartMatch(m) = "again" ->
                    UNCHANGED <<call, stream, stmts, clients, queue>>
               [] StartMatch(m) = "err" ->
                    /\ call' = [call EXCEPT !.pc = "failed", !.statement = 0,
                                            !.result = UnexpectedMessage(m)]
                    /\ SetHeap(Release(H, call.statement))
                    /\ UNCHANGED stream
               [] OTHER ->
                    IF call.path = "execute"
                    THEN /\ call' = [call EXCEPT !.pc = "execute", !.rows = 0]
                         /\ UNCHANGED <<stream, stmts, clients, queue>>
                    ELSE /\ call' = [call EXCEPT !.pc = "stream", !.statement = 0]
                         /\ stream' = NewStream(0,
                               IF call.path = "query_txt" THEN "Text" ELSE "Binary")
                         /\ SetHeap(Release(H, call.statement))
    /\ UNCHANGED <<peer, NEXT_ID, issued, prep, yielded, lastPoll>>

\* The match in the loop of `execute` on message m, the count being rows:
\* "again" with the new count, "return" with the count, or "err".
ExecuteArmKeepsCount(rows, m) ==
    CASE m.type \in {"DataRow", "EmptyQueryResponse"} ->
            [ret |-> "again", rows |-> rows, err |-> NoErr]
      [] m.type = "CommandComplete" ->
            IF m.ok
            THEN [ret |-> "again", rows |-> extract_row_affected(m.tag), err |-> NoErr]
            ELSE [ret |-> "err", rows |-> rows, err |-> ParseError]
      [] m.type = "ReadyForQuery" -> [ret |-> "return", rows |-> rows, err |-> NoErr]
      [] OTHER -> [ret |-> "err", rows |-> rows, err |-> UnexpectedMessage(m)]
ExecuteArm(rows, m) ==
    CASE m.type = "DataRow" -> [ret |-> "again", rows |-> rows, err |-> NoErr]
      [] m.type = "CommandComplete" ->
            IF m.ok
            THEN [ret |-> "again", rows |-> extract_row_affected(m.tag), err |-> NoErr]
            ELSE [ret |-> "err", rows |-> rows, err |-> ParseError]
      [] m.type = "EmptyQueryResponse" -> [ret |-> "again", rows |-> 0, err |-> NoErr]
      [] m.type = "ReadyForQuery" -> [ret |-> "return", rows |-> rows, err |-> NoErr]
      [] OTHER -> [ret |-> "err", rows |-> rows, err |-> UnexpectedMessage(m)]

\* One turn of the loop of `execute`.
ExecuteStep ==
    /\ call.pc = "execute"
    /\ responses.pos < responses.avail
    /\ LET a == ExecuteArm(call.rows, responses.script[responses.pos + 1])
           H == Heap(stmts, clients, queue)
       IN /\ responses' = [responses EXCEPT !.pos = @ + 1]
          /\ CASE a.ret = "again" ->
                    /\ call' = [call EXCEPT !.rows = a.rows]
                    /\ UNCHANGED <<stmts, clients, queue>>
               [] a.ret = "return" ->
                    /\ call' = [call EXCEPT !.pc = "returned", !.statement = 0]
                    /\ SetHeap(Release(H, call.statement))
               [] OTHER ->
                    /\ call' = [call EXCEPT !.pc = "failed", !.statement = 0,
                                            !.result = a.err]
                    /\ SetHeap(Release(H, call.statement))
    /\ UNCHANGED <<peer, NEXT_ID, issued, prep, stream, yielded, lastPoll>>

\* The consumer polls the stream: one call of poll_next.
Poll ==
    /\ call.pc = "stream"
    /\ lastPoll # "panic"
    /\ LET r == PollLoop(stream, Heap(stmts, clients, queue), responses.script,
                         responses.pos, responses.avail)
       IN /\ stream' = r.stream
          /\ SetHeap(r.heap)
          /\ responses' = [responses EXCEPT !.pos = r.pos]
          /\ lastPoll' = r.ret
          /\ yielded' = IF r.ret \in {"yield", "end"} THEN Append(yielded, r.item)
                        ELSE yielded
    /\ UNCHANGED <<peer, NEXT_ID, issued, prep, call>>

\* ---------------------------------------------------------- specification
Init ==
    /\ NEXT_ID = 0
    /\ issued = <<>>
    /\ clients = [c \in Conns |-> [strong |-> 1, weak |-> 0]]
    /\ queue = [c \in Conns |-> <<>>]
    /\ stmts = <<>>
    /\ prep = [t \in Tasks |-> IdlePrepare]
    /\ call = IdleCall
    /\ responses = NoReader
    /\ stream = NoStream
    /\ yielded = <<>>
    /\ lastPoll = "none"
    /\ peer = IdlePeer

Next ==
    \/ \E t \in Tasks, c \in Conns, unnamed \in BOOLEAN, encodable \in BOOLEAN :
          PrepareCall(t, c, unnamed, encodable)
    \/ \E t \in Tasks, m \in PrepareInputs : PrepareParseComplete(t, m)
    \/ \E t \in Tasks, m \in PrepareInputs : PrepareParameterDescription(t, m)
    \/ \E t \in Tasks, m \in PrepareInputs : PrepareRowDescription(t, m)
    \/ \E s \in 1..Len(stmts) : CloneStatement(s)
    \/ \E s \in 1..Len(stmts) : DropStatement(s)
    \/ \E c \in Conns : CloneClient(c)
    \/ \E c \in Conns : DropClient(c)

Spec == Init /\ [][Next]_vars

\* One `prepare` call at a time, over the wide range of answers.
NextPrepare ==
    \/ \E c \in Conns, unnamed \in BOOLEAN, encodable \in BOOLEAN :
          PrepareCall(1, c, unnamed, encodable)
    \/ \E m \in PrepareInputsWide : PrepareParseComplete(1, m)
    \/ \E m \in PrepareInputsWide : PrepareParameterDescription(1, m)
    \/ \E m \in PrepareInputsWide : PrepareRowDescription(1, m)
    \/ \E s \in 1..Len(stmts) : DropStatement(s)

SpecPrepare == Init /\ [][NextPrepare]_vars

\* The same, where the call is started, every message the call awaits
\* arrives and every handle is dropped in the end; the connection stays.
SpecPrepareFair == Init /\ [][NextPrepare]_vars /\ WF_vars(NextPrepare)

\* One call on a connection on which a named Statement was prepared: the
\* state `prepare` leaves, with one or more handles of the Statement held.
S0 == StatementName(0)
InitStream ==
    /\ NEXT_ID = 1
    /\ issued = <<S0>>
    /\ clients = [c \in Conns |->
                    [strong |-> 1, weak |-> IF c = TheClient THEN 1 ELSE 0]]
    /\ queue = [c \in Conns |->
                  IF c = TheClient THEN <<PrepareRequest(S0)>> ELSE <<>>]
    /\ \E n \in 1..MaxRefs :
          stmts = <<[NamedInner(TheClient, S0, DecodeParameters(Int4Parameters.oids),
                                DecodeColumns(IdDescription.fields))
                       EXCEPT !.refs = n]>>
    /\ prep = [t \in Tasks |->
                 IF t = 1
                 THEN [pc |-> "done", client |-> TheClient, unnamed |-> FALSE,
                       name |-> S0,
                       read |-> <<ParseCompleteMsg, Int4Parameters, IdDescription>>,
                       parameter_description |-> Int4Parameters,
                       result |-> OkStatement(TheStatement)]
                 ELSE IdlePrepare]
    /\ call = IdleCall
    /\ responses = NoReader
    /\ stream = NoStream
    /\ yielded = <<>>
    /\ lastPoll = "none"
    /\ peer = IdlePeer

NextStream ==
    \/ /\ call.pc = "idle"
       /\ \E path \in {"query", "execute"}, params \in ParamLists,
             serial \in {"ok", "before", "after"}, script \in Scripts :
             CallTyped(path, params, serial, script)
    \/ /\ call.pc = "idle"
       /\ \E encodable \in BOOLEAN, script \in Scripts :
             CallQueryTxt(encodable, script)
    \/ /\ call.pc = "idle"
       /\ \E max_rows \in 0..MaxRows, encodable \in BOOLEAN, script \in Scripts :
             CallQueryPortal(max_rows, encodable, script)
    \/ Arrive
    \/ StartStep
    \/ ExecuteStep
    \/ Poll

SpecStream == InitStream /\ [][NextStream]_vars

\* The handles of s the call in progress and its stream own.
Held(s) ==
    (IF call.statement = s THEN 1 ELSE 0) + (IF stream.statement = s THEN 1 ELSE 0)
    + (IF peer.statement = s THEN 1 ELSE 0)

\* A connection from its start: one `prepare`, then one call on the Statement
\* it returned (or a query_txt, which needs none), fed the answer the server
\* gives; handles of the Statement are cloned and dropped meanwhile.
NextRequests ==
    \/ \E unnamed \in BOOLEAN, encodable \in BOOLEAN :
          PrepareCall(1, TheClient, unnamed, encodable)
    \/ \E m \in PrepareInputs : PrepareParseComplete(1, m)
    \/ \E m \in PrepareInputs : PrepareParameterDescription(1, m)
    \/ \E m \in PrepareInputs : PrepareRowDescription(1, m)
    \/ /\ call.pc = "idle" /\ prep[1].result.kind = "ok"
       /\ \E path \in {"query", "execute"}, params \in ParamLists,
             serial \in {"ok", "before", "after"}, script \in WellFormed :
             CallTyped(path, params, serial, script)
    \/ /\ call.pc = "idle"
       /\ \E encodable \in BOOLEAN, script \in WellFormed :
             CallQueryTxt(encodable, script)
    \/ /\ call.pc = "idle" /\ prep[1].result.kind = "ok"
       /\ \E max_rows \in 0..MaxRows, encodable \in BOOLEAN, script \in WellFormed :
             CallQueryPortal(max_rows, encodable, script)
    \/ Arrive
    \/ StartStep
    \/ ExecuteStep
    \/ Poll
    \/ \E s \in 1..Len(stmts) : CloneStatement(s)
    \/ \E s \in 1..Len(stmts) : stmts[s].refs > Held(s) /\ DropStatement(s)

SpecRequests == Init /\ [][NextRequests]_vars

\* A typed call on a named Statement of 0..MaxParams parameters, fed the
\* answer the server gives.
InitBind ==
    /\ NEXT_ID = 1
    /\ issued = <<S0>>
    /\ clients = [c \in Conns |->
                    [strong |-> 1, weak |-> IF c = TheClient THEN 1 ELSE 0]]
    /\ queue = [c \in Conns |->
                  IF c = TheClient THEN <<PrepareRequest(S0)>> ELSE <<>>]
    /\ \E n \in 1..MaxRefs, k \in 0..MaxParams :
          LET pd == ParameterDescriptionMsg([i \in 1..k |-> INT4], TRUE) IN
          /\ stmts = <<[NamedInner(TheClient, S0, DecodeParameters(pd.oids),
                                   DecodeColumns(IdDescription.fields))
                          EXCEPT !.refs = n]>>
          /\ prep = [t \in Tasks |->
                       IF t = 1
                       THEN [pc |-> "done", client |-> TheClient, unnamed |-> FALSE,
                             name |-> S0,
                             read |-> <<ParseCompleteMsg, pd, IdDescription>>,
                             parameter_description |-> pd,
                             result |-> OkStatement(TheStatement)]
                       ELSE IdlePrepare]
    /\ call = IdleCall
    /\ responses = NoReader
    /\ stream = NoStream
    /\ yielded = <<>>
    /\ lastPoll = "none"
    /\ peer = IdlePeer

NextBind ==
    \/ /\ call.pc = "idle"
       /\ \E path \in {"query", "execute"}, params \in ParamLists,
             serial \in {"ok", "before", "after"}, n \in 0..MaxRows :
             CallTyped(path, params, serial,
                       <<BindCompleteMsg>> \o Rows(n) \o Completion(n))
    \/ Arrive
    \/ StartStep
    \/ ExecuteStep
    \/ Poll

SpecBind == InitBind /\ [][NextBind]_vars

\* Another task's query / execute on the same Statement, given one of the
\* handles held outside the calls: encode and send, or fail in encoding and
\* drop the handle.
PeerCall(encodes) ==
    /\ peer.pc = "idle"
    /\ stmts[TheStatement].refs > Held(TheStatement)
    /\ clients[TheClient].strong > 0
    /\ LET H == Heap(stmts, clients, queue)
       IN IF encodes
          THEN /\ peer' = [pc |-> "start", statement |-> TheStatement]
               /\ SetHeap(Submit(H, TheStatement,
                                  BindRequest(NameOf(stmts[TheStatement]))))
          ELSE /\ peer' = [pc |-> "done", statement |-> 0]
               /\ SetHeap(Release(H, TheStatement))
    /\ UNCHANGED <<NEXT_ID, issued, prep, call, responses, stream, yielded, lastPoll>>

\* That call returns (with its result or an error): its handle is dropped.
PeerReturn ==
    /\ peer.pc = "start"
    /\ peer' = [pc |-> "done", statement |-> 0]
    /\ SetHeap(Release(Heap(stmts, clients, queue), peer.statement))
    /\ UNCHANGED <<NEXT_ID, issued, prep, call, responses, stream, yielded, lastPoll>>

\* Two typed calls on one named Statement, by two tasks, each given one of
\* the handles in existence, while other holders clone and drop theirs.
NextHandles ==
    \/ /\ call.pc = "idle"
       /\ stmts[TheStatement].refs > Held(TheStatement)
       /\ \E path \in {"query", "execute"}, params \in ParamLists,
             serial \in {"ok", "before", "after"}, n \in 0..MaxRows :
             CallTyped(path, params, serial,
                       <<BindCompleteMsg>> \o Rows(n) \o Completion(n))
    \/ Arrive
    \/ StartStep
    \/ ExecuteStep
    \/ Poll
    \/ \E encodes \in BOOLEAN : PeerCall(encodes)
    \/ PeerReturn
    \/ \E s \in 1..Len(stmts) : CloneStatement(s)
    \/ \E s \in 1..Len(stmts) : stmts[s].refs > Held(s) /\ DropStatement(s)

SpecHandles == InitStream /\ [][NextHandles]_vars

\* The command tags a CommandComplete may carry: every text of up to
\* MaxTagLen bytes over a letter, the space, two digits and the signs, the
\* tags of three commands, and a count one above u64::MAX.
TagBytes == {68, 32, 48, 55, 43, 45}
DeleteTag == <<68, 69, 76, 69, 84, 69, 32, 55>>
HugeTag ==
    <<67, 79, 80, 89, 32,
      49, 56, 52, 52, 54, 55, 52, 52, 48, 55, 51, 55, 48, 57, 53, 53, 49, 54, 49, 54>>
Tags ==
    UNION { [1..n -> TagBytes] : n \in 0..MaxTagLen }
    \cup { DeleteTag, InsertTag, BeginTag, HugeTag, SelectTag(12) }

\* `execute`, and a portal's stream, on an answer whose CommandComplete
\* carries any of these tags.
NextTag ==
    \/ /\ call.pc = "idle"
       /\ \E tag \in Tags :
             CallTyped("execute", <<"ok">>, "ok",
                       <<BindCompleteMsg, CommandCompleteMsg(tag, TRUE),
                         ReadyForQueryMsg(IdleStatus)>>)
    \/ /\ call.pc = "idle"
       /\ \E tag \in Tags :
             CallQueryPortal(0, TRUE,
                             <<CommandCompleteMsg(tag, TRUE),
                               ReadyForQueryMsg(IdleStatus)>>)
    \/ Arrive
    \/ StartStep
    \/ ExecuteStep
    \/ Poll

SpecTag == InitStream /\ [][NextTag]_vars

\* ------------------------------------------------------------------ claims
Named(s) == stmts[s].kind = "Named"
LastDrop(s) == stmts[s].refs = 1 /\ stmts'[s].refs = 0
IsClose(r) == \E i \in 1..Len(r) : r[i].type = "Close"
ClosesOf(c, name) ==
    { i \in 1..Len(queue[c]) :
        \E k \in 1..Len(queue[c][i]) :
            queue[c][i][k].type = "Close" /\ queue[c][i][k].name = name }
Calling(t) == prep[t].pc \notin {"idle", "done"}

\* C2: every non-anonymous prepare obtains a name no other call obtained,
\* whatever the interleaving: the names generated so far are pairwise
\* distinct (also those of calls that failed and of live statements), and
\* the counter never decreases.
C2_NamesDistinct ==
    /\ \A i, j \in 1..Len(issued) : i # j => issued[i] # issued[j]
    /\ \A t, u \in Tasks :
          (t # u /\ prep[t].pc # "idle" /\ prep[u].pc # "idle"
             /\ ~prep[t].unnamed /\ ~prep[u].unnamed)
          => prep[t].name # prep[u].name
    /\ \A s, r \in 1..Len(stmts) :
          (s # r /\ Named(s) /\ Named(r)) => stmts[s].name # stmts[r].name
    /\ \A t \in Tasks :
          (prep[t].pc # "idle" /\ ~prep[t].unnamed)
          => \E i \in 1..Len(issued) : issued[i] = prep[t].name
C2_UniqueNames == []C2_NamesDistinct /\ [][NEXT_ID' >= NEXT_ID]_vars

\* Two named prepares on different connections are in flight at once.
C2_Witness ==
    \E t, u \in Tasks :
        /\ t # u /\ Calling(t) /\ Calling(u)
        /\ ~prep[t].unnamed /\ ~prep[u].unnamed
        /\ prep[t].client # prep[u].client

\* C3: for a named Statement whose connection is alive, no Close for its name
\* is in the outbound queue while a handle is live; the step that drops the
\* last handle appends exactly the request <<Close('S', name), Sync>> to its
\* connection's queue; and no other step appends a request holding a Close.
C3_NoCloseWhileLive ==
    \A s \in 1..Len(stmts) :
        Named(s) =>
            /\ stmts[s].refs > 0 => \A c \in Conns : ClosesOf(c, stmts[s].name) = {}
            /\ \A c \in Conns : Cardinality(ClosesOf(c, stmts[s].name)) <= 1
C3_CloseStep ==
    /\ \A s \in 1..Len(stmts) :
          (Named(s) /\ LastDrop(s) /\ clients[stmts[s].client].strong > 0)
          => queue' = [queue EXCEPT ![stmts[s].client] =
                          Append(@, <<CloseMsg(StatementKind, stmts[s].name), SyncMsg>>)]
    /\ \A c \in Conns :
          (Len(queue'[c]) > Len(queue[c]) /\ IsClose(queue'[c][Len(queue'[c])]))
          => \E s \in 1..Len(stmts) :
                Named(s) /\ LastDrop(s) /\ stmts[s].client = c
    /\ \A c \in Conns :
          /\ Len(queue'[c]) <= Len(queue[c]) + 1
          /\ SubSeq(queue'[c], 1, Len(queue[c])) = queue[c]
C3_CloseOnLastDrop == []C3_NoCloseWhileLive /\ [][C3_CloseStep]_vars

\* All handles of a named Statement were dropped while its connection
\* lived: one Close request for its name is queued.
C3_Witness ==
    \E s \in 1..Len(stmts) :
        /\ Named(s) /\ stmts[s].dropped
        /\ clients[stmts[s].client].strong > 0
        /\ Cardinality(ClosesOf(stmts[s].client, stmts[s].name)) = 1

\* C4: the last drop of an unnamed Statement, and the last drop of a named
\* Statement whose connection is destroyed, leave every queue unchanged; and
\* creating a Statement never adds a strong owner to its connection, so the
\* connection is destroyed by its owners' drops however many Statements
\* refer to it.
C4_Step ==
    /\ \A s \in 1..Len(stmts) :
          (LastDrop(s) /\ (~Named(s) \/ clients[stmts[s].client].strong = 0))
          => queue' = queue
    /\ Len(stmts') > Len(stmts)
          => \A c \in Conns : clients'[c].strong = clients[c].strong
    /\ \A c \in Conns :
          clients'[c].strong # clients[c].strong => (CloneClient(c) \/ DropClient(c))
C4_QuietDropWeakRef == [][C4_Step]_vars

\* A named Statement outlived its connection and was then dropped, and an
\* unnamed Statement was dropped: no Close is queued for either.
C4_Witness ==
    /\ \E s \in 1..Len(stmts) :
          /\ Named(s) /\ stmts[s].dropped
          /\ clients[stmts[s].client].strong = 0
          /\ \A c \in Conns : ClosesOf(c, stmts[s].name) = {}
    /\ \E s \in 1..Len(stmts) : ~Named(s) /\ stmts[s].dropped

\* C10: prepare accepts ParseComplete, ParameterDescription, then
\* RowDescription or NoData, in that order: a message that is not the one
\* its step expects is the last message the call reads, the call ends with
\* an unexpected-message error carrying it, and no Statement is built.
ExpectedAt(i, m) ==
    CASE i = 1 -> m.type = "ParseComplete"
      [] i = 2 -> m.type = "ParameterDescription"
      [] i = 3 -> m.type \in {"RowDescription", "NoData"}
      [] OTHER -> FALSE
C10_PrepareOrder ==
    /\ \A t \in Tasks :
          LET r == prep[t].read IN
          /\ \A i \in 1..Len(r) :
                ~ExpectedAt(i, r[i])
                => /\ i = Len(r)
                   /\ prep[t].pc = "done"
                   /\ prep[t].result = Failed(UnexpectedMessage(r[i]))
          /\ prep[t].result.kind = "ok"
                => Len(r) = 3 /\ \A i \in 1..3 : ExpectedAt(i, r[i])
          /\ prep[t].result.err.kind = "unexpected_message"
                => /\ r # <<>>
                   /\ prep[t].result.err.msg = r[Len(r)]
                   /\ ~ExpectedAt(Len(r), r[Len(r)])
    /\ Len(stmts) = Cardinality({t \in Tasks : prep[t].result.kind = "ok"})

\* A call failed at its third step, on a message that came after
\* ParseComplete and ParameterDescription.
C10_Witness ==
    \E t \in Tasks :
        /\ Len(prep[t].read) = 3
        /\ prep[t].result.err.kind = "unexpected_message"
        /\ prep[t].result.err.msg.type = "ParseComplete"

\* C11: a successful prepare returns a Statement with one parameter per OID
\* of the ParameterDescription it read, in order, and one column per field of
\* the RowDescription, in order, or no column after NoData; the Statement is
\* unnamed with an empty name when the call was anonymous and otherwise
\* carries the name the call generated; an OID that is not known becomes the
\* text type, and a call that read the three expected messages with decodable
\* bodies succeeds whatever the OIDs.
ResolvedType(oid) == IF oid = INT4 \/ oid = TEXT THEN oid ELSE TEXT
C11_StatementAsDescribed ==
    \A t \in Tasks :
        LET r == prep[t].read IN
        /\ prep[t].result.kind = "ok" =>
              LET st == stmts[prep[t].result.stmt] IN
              /\ Len(st.params) = Len(r[2].oids)
              /\ \A i \in 1..Len(st.params) :
                    st.params[i] = ResolvedType(r[2].oids[i])
              /\ r[3].type = "NoData" => st.columns = <<>>
              /\ r[3].type = "RowDescription" =>
                    /\ Len(st.columns) = Len(r[3].fields)
                    /\ \A i \in 1..Len(st.columns) :
                          /\ st.columns[i].name = r[3].fields[i].name
                          /\ st.columns[i].type = ResolvedType(r[3].fields[i].type_oid)
              /\ prep[t].unnamed => st.kind = "Unnamed" /\ NameOf(st) = <<>>
              /\ ~prep[t].unnamed =>
                    /\ st.kind = "Named"
                    /\ NameOf(st) = prep[t].name
                    /\ st.client = prep[t].client
                    /\ \E i \in 1..Len(issued) : issued[i] = NameOf(st)
                    /\ NameOf(st) # <<>>
        /\ ( /\ Len(r) = 3
             /\ \A i \in 1..3 : ExpectedAt(i, r[i]) /\ r[i].ok )
              => prep[t].result.kind = "ok"

\* A named prepare succeeded on a description holding an unknown OID in its
\* parameters and in its columns.
C11_Witness ==
    \E t \in Tasks :
        /\ prep[t].result.kind = "ok"
        /\ ~prep[t].unnamed
        /\ Len(prep[t].read[2].oids) = 2
        /\ prep[t].read[2].oids[2] \notin KnownOids
        /\ prep[t].read[3].type = "RowDescription"
        /\ Len(stmts[prep[t].result.stmt].columns) = 2
        /\ stmts[prep[t].result.stmt].columns[2].type = TEXT

\* C20: a name a non-anonymous prepare generated, whose Parse was sent and
\* answered by ParseComplete, gets a Close enqueued on its connection in the
\* end, the connection staying alive and all handles being dropped; also
\* when the call fails at a later step.
ParseAcknowledged(t) ==
    /\ ~prep[t].unnamed
    /\ prep[t].read # <<>>
    /\ prep[t].read[1].type = "ParseComplete"
CloseEnqueued(t) ==
    /\ prep[t].client \in Conns
    /\ ClosesOf(prep[t].client, prep[t].name) # {}
C20_EventuallyClosed ==
    \A t \in Tasks : ParseAcknowledged(t) ~> CloseEnqueued(t)

\* ----------------------------------------------------- claims on the stream
Streaming == call.pc = "stream"
Ended == \E i \in 1..Len(yielded) : yielded[i].kind = "end"
RowsBefore(i) == { j \in 1..(i - 1) : yielded[j].kind = "row" }
TypedAnswer(n) == <<BindCompleteMsg>> \o Rows(n) \o Completion(n)
TxtAnswers ==
    { <<ParseCompleteMsg, BindCompleteMsg, Int4Parameters, IdDescription>>
          \o Rows(n) \o Completion(n) : n \in 0..MaxRows }
    \cup { <<ParseCompleteMsg, BindCompleteMsg, Int4Parameters, NoDataMsg,
             CommandCompleteMsg(BeginTag, TRUE), ReadyForQueryMsg(IdleStatus)>> }

\* C1: the stream `query` returns, fed BindComplete, n DataRows,
\* CommandComplete with count n and ReadyForQuery (n >= 1), yields the n rows
\* in arrival order and then the end, and nothing else; once all is read,
\* rows_affected is n and ready_status is the ReadyForQuery status.
C1_TypedQueryYieldsRows ==
    \A n \in 1..MaxRows :
        (call.path = "query" /\ Streaming /\ responses.script = TypedAnswer(n))
        => /\ lastPoll # "panic"
           /\ Len(yielded) <= n + 1
           /\ \A i \in 1..Len(yielded) :
                 IF i <= n
                 THEN yielded[i].kind = "row" /\ yielded[i].row.body = i
                 ELSE yielded[i].kind = "end"
           /\ responses.pos = Len(responses.script)
                 => /\ Len(yielded) = n + 1
                    /\ rows_affected = <<n>>
                    /\ ready_status = <<IdleStatus>>

\* C5 as claimed: a typed call whose parameter count differs from the
\* Statement's fails with a parameter-count error and leaves the outbound
\* queue as it was, with no reader.
MismatchStep ==
    /\ call.pc = "idle"
    /\ call'.path \in {"query", "execute"}
    /\ Len(call'.params) # Len(stmts[TheStatement].params)
C5_Original ==
    [][MismatchStep =>
          /\ call'.pc = "failed"
          /\ call'.result = ParametersError(Len(call'.params),
                                            Len(stmts[TheStatement].params))
          /\ queue' = queue
          /\ ~responses'.open]_vars

\* C5, amended: such a call fails with a parameter-count error holding both
\* counts, creates no reader and submits no request of its own; the queue
\* changes only when the call was given the last handle of the named
\* Statement, whose drop on return appends that Statement's Close request.
C5_ParameterCount ==
    [][MismatchStep =>
          /\ call'.pc = "failed"
          /\ call'.result = ParametersError(Len(call'.params),
                                            Len(stmts[TheStatement].params))
          /\ ~responses'.open
          /\ queue' = IF stmts[TheStatement].refs = 1
                      THEN Send(queue, TheClient,
                                CloseRequest(stmts[TheStatement].name))
                      ELSE queue]_vars

\* A typed call given too many parameters has failed, the caller still
\* holding a handle.
C5_Witness ==
    /\ call.pc = "failed"
    /\ call.result.kind = "parameters"
    /\ call.result.a = 2 /\ call.result.b = 1
    /\ stmts[TheStatement].refs > 0

\* C6: once a stream has yielded an unexpected-message error with no row
\* before it, it yields no row at all, whatever arrives and however often it
\* is polled.
C6_UnexpectedIsTerminal ==
    \A i \in 1..Len(yielded) :
        (yielded[i].err.kind = "unexpected_message" /\ RowsBefore(i) = {})
        => \A j \in 1..Len(yielded) : yielded[j].kind # "row"

\* C7: on query_txt, for an answer ParseComplete, BindComplete,
\* ParameterDescription, RowDescription or NoData, DataRows, CommandComplete,
\* ReadyForQuery: once the description pair is read the stream holds an
\* unnamed Statement made of the described parameters and columns (none for
\* NoData), and every row is decoded against it, in text format, in order.
DescribedStatement(script) ==
    UnnamedInner(DecodeParameters(script[3].oids),
                 IF script[4].type = "NoData" THEN <<>>
                 ELSE <<[name |-> script[4].fields[1].name,
                         table_oid |-> <<script[4].fields[1].table_oid>>,
                         column_id |-> <<script[4].fields[1].column_id>>,
                         type |-> script[4].fields[1].type_oid]>>)
C8_PollStep ==
    (Streaming /\ lastPoll # "panic" /\ <<responses, yielded, lastPoll>>' #
                                         <<responses, yielded, lastPoll>>)
    => LET read == responses'.pos > responses.pos
           last == responses.script[responses'.pos]
       IN /\ (lastPoll' = "end" /\ Len(yielded') > Len(yielded))
                <=> (read /\ responses'.pos > 0 /\ last.type = "ReadyForQuery"
                       /\ call.pc = "stream")
          /\ Len(yielded') > Len(yielded) /\ yielded'[Len(yielded')].kind = "end"
                => /\ read
                   /\ last.type = "ReadyForQuery"
                   /\ stream'.status = <<last.status>>
C8_NoRowAfterEnd ==
    \A i, j \in 1..Len(yielded) :
        (yielded[i].kind = "end" /\ j > i) => yielded[j].kind # "row"
C8_EndAtReady == []C8_NoRowAfterEnd /\ [][C8_PollStep]_vars

\* A stream has yielded a row and then ended, and was polled again.
C8_Witness ==
    /\ Streaming /\ Ended
    /\ \E i \in 1..Len(yielded) : yielded[i].kind = "row"
    /\ lastPoll = "pending"

\* C12: the count extracted from a CommandComplete tag is the integer
\* written after the tag's last space (the whole tag when it has no space),
\* and 0 when that text is no non-negative integer (empty, holding another
\* byte than a digit after an optional plus sign, or above u64::MAX); no tag
\* makes the extraction fail. "DELETE 7" gives 7, "INSERT 0 5" gives 5,
\* "BEGIN" gives 0.
TrailingText(tag) ==
    LET spaces == { i \in 1..Len(tag) : tag[i] = 32 }
        last == IF spaces = {} THEN 0
                ELSE CHOOSE i \in spaces : \A j \in spaces : j <= i
    IN SubSeq(tag, last + 1, Len(tag))
Unsigned(w) == IF w # <<>> /\ w[1] = 43 THEN Tail(w) ELSE w
Numeral(w) == w # <<>> /\ \A i \in 1..Len(w) : w[i] >= 48 /\ w[i] <= 57
RECURSIVE NumeralValue(_)
NumeralValue(w) ==
    IF w = <<>> THEN 0
    ELSE (w[1] - 48) * 10 ^ (Len(w) - 1) + NumeralValue(Tail(w))
TheTag ==
    LET at == CHOOSE i \in 1..Len(responses.script) :
                  responses.script[i].type = "CommandComplete"
    IN responses.script[at].tag
ExtractedAs(n) ==
    /\ (call.path = "execute" /\ call.pc = "returned") => call.rows = n
    /\ (Streaming /\ rows_affected # <<>>) => rows_affected = <<n>>
C12_RowsAffectedFromTag ==
    responses.open =>
        LET w == Unsigned(TrailingText(TheTag)) IN
        /\ call.pc # "failed"
        /\ \A i \in 1..Len(yielded) : yielded[i].kind # "err"
        /\ (Numeral(w) /\ Len(w) <= 9) => ExtractedAs(NumeralValue(w))
        /\ ~Numeral(w) => ExtractedAs(0)
        /\ TheTag = HugeTag => ExtractedAs(0)
        /\ TheTag = DeleteTag => ExtractedAs(7)
        /\ TheTag = InsertTag => ExtractedAs(5)
        /\ TheTag = BeginTag => ExtractedAs(0)

\* `execute` returned 5 for the tag "INSERT 0 5".
C12_Witness ==
    /\ call.path = "execute" /\ call.pc = "returned"
    /\ TheTag = InsertTag
    /\ call.rows = 5

\* C9: while a stream has not signalled the end, rows_affected, command_tag
\* and ready_status are all None.
C9_UnknownUntilEnd ==
    (Streaming /\ ~Ended)
    => rows_affected = <<>> /\ command_tag = <<>> /\ ready_status = <<>>

\* C13: on query, query_txt and query_portal, fed the answer the server gives
\* to the request, the stream never meets a DataRow while its Statement is
\* unset: the DataRow arm does not abort.
PortalAnswers ==
    { Rows(n) \o Completion(n) : n \in 0..MaxRows }
    \cup { Rows(n) \o <<PortalSuspendedMsg, ReadyForQueryMsg(IdleStatus)>> :
              n \in 1..MaxRows }
Conforming ==
    \/ call.path = "query" /\ \E n \in 0..MaxRows : responses.script = TypedAnswer(n)
    \/ call.path = "query_txt" /\ responses.script \in TxtAnswers
    \/ call.path = "query_portal" /\ responses.script \in PortalAnswers
C13_StatementKnownAtDataRow ==
    (Streaming /\ Conforming /\ responses.pos >= 1
       /\ responses.script[responses.pos].type = "DataRow")
    => stream.statement # 0 /\ lastPoll # "panic"

\* C14: `start` (query, query_txt, execute) has submitted the request before
\* it reads; it reads one message at a time; a ParseComplete is discarded and
\* the step goes on; the first BindComplete or ReadyForQuery is consumed and
\* ends the step with success, the caller reading on from the next message;
\* any other message ends the call with an unexpected-message error carrying
\* it, and neither a stream nor a count is produced.
OwnRequest ==
    IF call.path = "query_txt" THEN TxtRequest
    ELSE BindRequest(NameOf(stmts[TheStatement]))
C14_PrefixRead ==
    (call.path \in {"query", "query_txt", "execute"} /\ responses.open) =>
        /\ \E i \in 1..Len(queue[TheClient]) : queue[TheClient][i] = OwnRequest
        /\ call.pc = "start" =>
              \A i \in 1..responses.pos : responses.script[i].type = "ParseComplete"
        /\ call.pc \in {"execute", "stream", "returned"} =>
              \E k \in 1..responses.pos :
                  /\ responses.script[k].type \in {"BindComplete", "ReadyForQuery"}
                  /\ \A i \in 1..(k - 1) : responses.script[i].type = "ParseComplete"
        /\ call.pc = "failed" => stream = NoStream /\ yielded = <<>>
C14_StartTurn ==
    (call.pc = "start" /\ responses'.pos # responses.pos) =>
        LET m == responses.script[responses.pos + 1] IN
        /\ responses'.pos = responses.pos + 1
        /\ responses'.script = responses.script
        /\ m.type = "ParseComplete" => call' = call /\ stream' = stream
        /\ m.type \in {"BindComplete", "ReadyForQuery"} =>
              /\ call'.result = NoErr
              /\ call'.pc = IF call.path = "execute" THEN "execute" ELSE "stream"
              /\ call.path = "execute" => call'.rows = 0 /\ stream' = NoStream
              /\ call.path # "execute" =>
                    stream' = NewStream(0, IF call.path = "query_txt"
                                           THEN "Text" ELSE "Binary")
        /\ m.type \notin {"ParseComplete", "BindComplete", "ReadyForQuery"} =>
              /\ call'.pc = "failed"
              /\ call'.result = UnexpectedMessage(m)
              /\ stream' = NoStream
C14_StartPrefix == []C14_PrefixRead /\ [][C14_StartTurn]_vars

\* query_txt got its stream after `start` discarded a ParseComplete and
\* consumed the BindComplete, the next message still unread.
C14_Witness ==
    /\ call.path = "query_txt" /\ Streaming
    /\ responses.script[1].type = "ParseComplete"
    /\ responses.script[2].type = "BindComplete"
    /\ responses.pos = 2
    /\ Len(responses.script) > 2

\* C15: after the prefix `execute` counts from 0: a DataRow leaves the count,
\* a CommandComplete sets it to the count of its tag, an EmptyQueryResponse
\* sets it to 0; at the first ReadyForQuery it returns the count and reads no
\* more; any other message ends it with an unexpected-message error.
PrefixEnd ==
    CHOOSE k \in 1..responses.pos :
        /\ responses.script[k].type \in {"BindComplete", "ReadyForQuery"}
        /\ \A i \in 1..(k - 1) : responses.script[i].type = "ParseComplete"
RECURSIVE CountOver(_, _, _)
CountOver(script, from, to) ==
    IF to < from THEN 0
    ELSE CASE script[to].type = "CommandComplete" -> extract_row_affected(script[to].tag)
           [] script[to].type = "EmptyQueryResponse" -> 0
           [] OTHER -> CountOver(script, from, to - 1)
Counted == {"DataRow", "CommandComplete", "EmptyQueryResponse"}
C15_Count ==
    call.path = "execute" =>
        /\ call.pc = "execute" =>
              /\ call.rows = CountOver(responses.script, PrefixEnd + 1, responses.pos)
              /\ \A i \in (PrefixEnd + 1)..responses.pos :
                    responses.script[i].type \in Counted
        /\ call.pc = "returned" =>
              /\ responses.script[responses.pos].type = "ReadyForQuery"
              /\ call.rows = CountOver(responses.script, PrefixEnd + 1, responses.pos - 1)
              /\ \A i \in (PrefixEnd + 1)..(responses.pos - 1) :
                    responses.script[i].type \in Counted
C15_Turn ==
    /\ (call.path = "execute" /\ call.pc \in {"returned", "failed"})
          => responses'.pos = responses.pos
    /\ (call.pc = "execute" /\ responses'.pos # responses.pos) =>
          LET m == responses.script[responses.pos + 1] IN
          /\ responses'.pos = responses.pos + 1
          /\ m.type = "DataRow" => call' = call
          /\ (m.type = "CommandComplete" /\ m.ok) =>
                call' = [call EXCEPT !.rows = extract_row_affected(m.tag)]
          /\ m.type = "EmptyQueryResponse" => call' = [call EXCEPT !.rows = 0]
          /\ m.type = "ReadyForQuery" =>
                call'.pc = "returned" /\ call'.rows = call.rows
          /\ m.type \notin (Counted \cup {"ReadyForQuery"}) =>
                /\ call'.pc = "failed"
                /\ call'.result = UnexpectedMessage(m)
C15_ExecuteCounts == []C15_Count /\ [][C15_Turn]_vars

\* `execute` returned 0: its answer held a CommandComplete with a count
\* above 0 and an EmptyQueryResponse after it.
C15_Witness ==
    /\ call.path = "execute" /\ call.pc = "returned"
    /\ call.rows = 0
    /\ \E i, j \in 1..Len(responses.script) :
          /\ i < j
          /\ responses.script[i].type = "CommandComplete"
          /\ extract_row_affected(responses.script[i].tag) > 0
          /\ responses.script[j].type = "EmptyQueryResponse"

\* C16: every operation submits its messages as one request that ends with
\* its only Sync: prepare sends Parse(name), Describe('S', name), Sync; query
\* and execute send Bind(portal "", statement name), Execute("", 0), Sync;
\* query_txt sends Parse(""), Bind("", ""), Describe('S', ""), Execute("", 0),
\* Sync; query_portal sends Execute(portal, max_rows), Sync and returns its
\* stream with nothing read. An operation submits one such request and the
\* steps that follow submit none; the only other request is the Close a
\* dropped last handle sends.
IsSync(f) == f.type = "Sync"
IsParse(f, name) == f.type = "Parse" /\ f.name = name
IsDescribe(f, name) == f.type = "Describe" /\ f.kind = 83 /\ f.name = name
IsBind(f, portal, name) == f.type = "Bind" /\ f.portal = portal /\ f.name = name
IsExecute(f, portal, max_rows) ==
    f.type = "Execute" /\ f.portal = portal /\ f.max_rows = max_rows
PrepareShape(r, name) ==
    Len(r) = 3 /\ IsParse(r[1], name) /\ IsDescribe(r[2], name) /\ IsSync(r[3])
TypedShape(r, name) ==
    Len(r) = 3 /\ IsBind(r[1], <<>>, name) /\ IsExecute(r[2], <<>>, 0) /\ IsSync(r[3])
TxtShape(r) ==
    /\ Len(r) = 5
    /\ IsParse(r[1], <<>>) /\ IsBind(r[2], <<>>, <<>>) /\ IsDescribe(r[3], <<>>)
    /\ IsExecute(r[4], <<>>, 0) /\ IsSync(r[5])
PortalShape(r, portal, max_rows) ==
    Len(r) = 2 /\ IsExecute(r[1], portal, max_rows) /\ IsSync(r[2])
Submitted == queue'[TheClient][Len(queue'[TheClient])]
Grows == Len(queue'[TheClient]) > Len(queue[TheClient])
PrepareSends == prep[1].pc = "idle" /\ prep'[1].pc = "ParseComplete"
CallSends == call.pc = "idle" /\ call'.pc \in {"start", "stream"}
C16_OneSyncLast ==
    \A c \in Conns : \A i \in 1..Len(queue[c]) :
        LET r == queue[c][i] IN
        /\ r # <<>>
        /\ \A k \in 1..Len(r) : IsSync(r[k]) <=> k = Len(r)
C16_Submit ==
    /\ \A c \in Conns :
          /\ Len(queue'[c]) <= Len(queue[c]) + 1
          /\ SubSeq(queue'[c], 1, Len(queue[c])) = queue[c]
    /\ queue'[TheClient] # queue[TheClient] =>
          \/ PrepareSends /\ call' = call
          \/ CallSends /\ prep' = prep
          \/ /\ Submitted[1].type = "Close"
             /\ \E s \in 1..Len(stmts) : LastDrop(s)
    /\ PrepareSends =>
          Grows /\ PrepareShape(Submitted, prep'[1].name)
    /\ (CallSends /\ call'.path \in {"query", "execute"}) =>
          Grows /\ TypedShape(Submitted, NameOf(stmts[TheStatement]))
    /\ (CallSends /\ call'.path = "query_txt") =>
          Grows /\ TxtShape(Submitted)
    /\ (CallSends /\ call'.path = "query_portal") =>
          /\ Grows /\ PortalShape(Submitted, PortalName, call'.max_rows)
          /\ call'.pc = "stream"
          /\ responses'.pos = 0 /\ responses'.avail = 0
C16_RequestShapes == []C16_OneSyncLast /\ [][C16_Submit]_vars

\* The queue holds the request of a named prepare and, after it, the
\* request of a portal query for more than no rows.
C16_Witness ==
    /\ Len(queue[TheClient]) = 2
    /\ PrepareShape(queue[TheClient][1], S0)
    /\ PortalShape(queue[TheClient][2], PortalName, MaxRows)
    /\ Streaming

\* C17 as claimed: a typed call whose parameter counts agree and in which a
\* conversion fails ends with a conversion error holding the zero-based
\* position of the first failing parameter, and a call that only a
\* serialization failure stops ends with an encode error; either leaves the
\* outbound queue as it was, with no reader.
BindFails ==
    /\ call.pc = "idle"
    /\ call'.path \in {"query", "execute"}
    /\ Len(call'.params) = Len(stmts[TheStatement].params)
    /\ call'.pc = "failed"
FailingParams == { i \in 1..Len(call'.params) : call'.params[i] = "bad" }
ConversionReported ==
    /\ (FailingParams # {} /\ call'.serial # "before") =>
          /\ call'.result.kind = "to_sql"
          /\ call'.result.a + 1 \in FailingParams
          /\ \A i \in FailingParams : call'.result.a + 1 <= i
    /\ (FailingParams = {} \/ call'.serial = "before") =>
          call'.result = EncodeError
    /\ call'.result.kind \in {"to_sql", "encode"}
C17_Original ==
    [][BindFails =>
          /\ ConversionReported
          /\ ~responses'.open
          /\ queue' = queue]_vars

\* C17, amended: the same errors, no reader and no request of the call; the
\* queue changes only when the call was given the last handle of the named
\* Statement, whose drop on return appends that Statement's Close request.
\* A typed call with agreeing counts fails in encoding only for a failing
\* conversion or a serialization failure, and otherwise submits its request.
C17_ConversionError ==
    [][/\ BindFails =>
             /\ ConversionReported
             /\ ~responses'.open
             /\ queue' = IF stmts[TheStatement].refs = 1
                         THEN Send(queue, TheClient,
                                   CloseRequest(stmts[TheStatement].name))
                         ELSE queue
       /\ (call.pc = "idle" /\ call'.pc = "start") =>
             \A i \in 1..Len(call'.params) : call'.params[i] = "ok"]_vars

\* A call of two parameters failed on the second, the first having been
\* converted, the caller still holding a handle.
C17_Witness ==
    /\ call.pc = "failed"
    /\ call.params = <<"ok", "bad">>
    /\ call.result.kind = "to_sql" /\ call.result.a = 1
    /\ stmts[TheStatement].refs > 0

\* C18: whenever a stream processes a RowDescription or a NoData, a
\* ParameterDescription it received earlier is stashed and not yet paired
\* with another RowDescription or NoData, so that the pairing does not abort
\* for lack of one.
Pairing(t) == t \in {"RowDescription", "NoData"}
StashedAt(p) ==
    { q \in 1..(p - 1) :
        /\ responses.script[q].type = "ParameterDescription"
        /\ \A j \in (q + 1)..(p - 1) :
              responses.script[j].type \notin {"RowDescription", "NoData",
                                               "ParameterDescription"} }
C18_PairingHasDescription ==
    (Streaming /\ responses.pos >= 1
       /\ Pairing(responses.script[responses.pos].type))
    => /\ StashedAt(responses.pos) # {}
       /\ lastPoll = "panic" =>
             \E q \in StashedAt(responses.pos) : ~responses.script[q].ok

\* C19: once the reader has delivered the request's ReadyForQuery, the
\* operation does not wait on the reader again: `start` and `execute` are
\* not at a read, and a stream that has been polled is not left pending
\* before it signalled its end; in particular when `start` was the one that
\* consumed the ReadyForQuery.
ReadyDelivered ==
    /\ responses.open
    /\ responses.pos >= 1
    /\ responses.script[responses.pos].type = "ReadyForQuery"
WaitingOnReader ==
    \/ call.pc \in {"start", "execute"}
    \/ Streaming /\ lastPoll = "pending" /\ ~Ended
C19_NoReadAfterReady == ReadyDelivered => ~WaitingOnReader

\* C21: on a connection's queue no Close of a named Statement stands ahead
\* of a Bind naming that Statement; a typed query or execute still owns its
\* handle in the step that submits its Bind/Execute/Sync request, so the
\* Statement is alive then and no Close for it is queued, whatever calls,
\* clones and drops interleave, and when the call got the last handle.
BindsOf(c, name) ==
    { i \in 1..Len(queue[c]) :
        \E k \in 1..Len(queue[c][i]) :
            queue[c][i][k].type = "Bind" /\ queue[c][i][k].name = name }
C21_NoCloseBeforeBind ==
    /\ \A c \in Conns : \A s \in 1..Len(stmts) :
          Named(s) =>
              \A i \in ClosesOf(c, stmts[s].name), j \in BindsOf(c, stmts[s].name) :
                  j < i
    /\ (call.pc = "start" /\ call.path \in {"query", "execute"}) =>
          call.statement = TheStatement /\ stmts[TheStatement].refs >= 1
    /\ peer.pc = "start" =>
          peer.statement = TheStatement /\ stmts[TheStatement].refs >= 1
C21_BindStep ==
    Cardinality(BindsOf(TheClient, S0)') > Cardinality(BindsOf(TheClient, S0))
    => /\ stmts'[TheStatement].refs >= 1
       /\ ClosesOf(TheClient, S0)' = {}
       /\ \/ call.pc = "idle" /\ call'.pc = "start" /\ call'.statement = TheStatement
          \/ peer.pc = "idle" /\ peer'.pc = "start" /\ peer'.statement = TheStatement
C21_CloseAfterBind == []C21_NoCloseBeforeBind /\ [][C21_BindStep]_vars

\* Two calls were each given a handle, the last one among them; both Bind
\* requests are queued and, after them, the Statement's Close.
C21_Witness ==
    /\ call.path \in {"query", "execute"} /\ call.statement = 0
    /\ peer.pc = "done"
    /\ stmts[TheStatement].dropped
    /\ Cardinality(BindsOf(TheClient, S0)) = 2
    /\ Cardinality(ClosesOf(TheClient, S0)) = 1

====
